---- MODULE Spec2Model ----
(***************************************************************************)
(* Model of the file-access MCP server (src/src/index.ts): validatePath    *)
(* and the read_file, write_file and list_files tool handlers, over a      *)
(* POSIX filesystem.                                                       *)
(*                                                                         *)
(* A string is a sequence of one-character strings, so that path.resolve,  *)
(* String.startsWith and template literals are computed character by       *)
(* character.  A file holds a sequence of bytes; a content string is a     *)
(* sequence of UTF-16 code units.                                          *)
(***************************************************************************)
EXTENDS Naturals, Sequences, FiniteSets, TLC

VARIABLES cwd, fs, last, inflight, wrote

vars == <<cwd, fs, last, inflight, wrote>>

(***************************************************************************)
(* Bounds.                                                                 *)
(***************************************************************************)
MaxContentLen == 2
MaxCalls == 2

(***************************************************************************)
(* Strings.  A string is a sequence of tokens: the separator "/", a file   *)
(* or directory name, or a piece of literal text.  spell gives a string    *)
(* character by character, which is what startsWith and includes compare.  *)
(***************************************************************************)
sep == "/"

spelling ==
  [ allowed |-> <<"a", "l", "l", "o", "w", "e", "d">>,
    allowed_evil |-> <<"a", "l", "l", "o", "w", "e", "d", "-", "e", "v", "i", "l">>,
    outside |-> <<"o", "u", "t", "s", "i", "d", "e">>,
    sub |-> <<"s", "u", "b">>,
    dir |-> <<"d", "i", "r">>,
    file_txt |-> <<"f", "i", "l", "e", ".", "t", "x", "t">>,
    dist |-> <<"d", "i", "s", "t">>,
    dotdot |-> <<".", ".">> ]

RECURSIVE spell(_)
spell(s) ==
  IF s = <<>> THEN <<>>
  ELSE (IF Head(s) \in DOMAIN spelling THEN spelling[Head(s)] ELSE <<Head(s)>>)
         \o spell(Tail(s))

RECURSIVE join(_, _)
join(segs, s) ==
  IF segs = <<>> THEN <<>>
  ELSE IF Len(segs) = 1 THEN segs[1]
  ELSE segs[1] \o s \o join(Tail(segs), s)

isPrefix(s, prefix) ==
  /\ Len(prefix) <= Len(s)
  /\ SubSeq(s, 1, Len(prefix)) = prefix

\* String.prototype.startsWith
startsWith(s, prefix) == isPrefix(spell(s), spell(prefix))

\* String.prototype.includes
includes(s, part) ==
  LET text == spell(s)
      word == spell(part)
  IN \E i \in 1..(Len(text) + 1) :
       /\ i + Len(word) - 1 <= Len(text)
       /\ SubSeq(text, i, i + Len(word) - 1) = word

\* s.split("/")
RECURSIVE split(_, _)
split(s, cur) ==
  IF s = <<>> THEN <<cur>>
  ELSE IF Head(s) = sep THEN <<cur>> \o split(Tail(s), <<>>)
  ELSE split(Tail(s), Append(cur, Head(s)))

(***************************************************************************)
(* path (POSIX).                                                           *)
(***************************************************************************)
isAbsolute(p) == p # <<>> /\ Head(p) = sep

\* normalizeString: drops empty and "." segments, ".." removes the segment
\* before it (and is dropped at the root).
RECURSIVE normalizeSegments(_, _)
normalizeSegments(segs, acc) ==
  IF segs = <<>> THEN acc
  ELSE LET h == Head(segs) IN
    IF h = <<>> \/ h = <<".">> THEN normalizeSegments(Tail(segs), acc)
    ELSE IF h = <<"dotdot">>
      THEN normalizeSegments(Tail(segs),
             IF acc = <<>> THEN acc ELSE SubSeq(acc, 1, Len(acc) - 1))
    ELSE normalizeSegments(Tail(segs), Append(acc, h))

fromSegments(segs) == <<sep>> \o join(segs, <<sep>>)

segmentsOf(p) == normalizeSegments(split(p, <<>>), <<>>)

\* path.resolve(p) in a process whose working directory is dir
path_resolve(dir, p) ==
  fromSegments(segmentsOf(IF isAbsolute(p) THEN p ELSE dir \o <<sep>> \o p))

\* path.dirname of a resolved path
path_dirname(p) ==
  LET segs == segmentsOf(p) IN
    IF segs = <<>> THEN <<sep>>
    ELSE fromSegments(SubSeq(segs, 1, Len(segs) - 1))

\* path.basename of a resolved path
path_basename(p) ==
  LET segs == segmentsOf(p) IN
    IF segs = <<>> THEN <<>> ELSE segs[Len(segs)]

(***************************************************************************)
(* Text encoding.  Code units: the surrogates "D83D" (high) and "DE00"     *)
(* (low), which in this order are U+1F600, and "FFFD" (U+FFFD); any other  *)
(* unit is an ASCII character.                                             *)
(* Bytes are named by their hexadecimal value, an ASCII byte by its        *)
(* character.                                                              *)
(***************************************************************************)
Units == {"D83D", "DE00"}

RECURSIVE seqsUpTo(_, _)
seqsUpTo(S, n) ==
  IF n = 0 THEN {<<>>}
  ELSE LET shorter == seqsUpTo(S, n - 1) IN
    shorter \cup {Append(s, x) : s \in shorter, x \in S}

Contents == seqsUpTo(Units, MaxContentLen)

\* a faulty variant of utf8_encode: each code unit is encoded alone, so that a
\* surrogate pair is written as two U+FFFD
RECURSIVE utf8_encode_perUnit(_)
utf8_encode_perUnit(c) ==
  IF c = <<>> THEN <<>>
  ELSE IF c[1] \in {"D83D", "DE00", "FFFD"}
    THEN <<"EF", "BF", "BD">> \o utf8_encode_perUnit(Tail(c))
  ELSE <<c[1]>> \o utf8_encode_perUnit(Tail(c))

\* Buffer.from(content, "utf-8"): a surrogate pair is one four-byte sequence,
\* an unpaired surrogate is written as U+FFFD.
RECURSIVE utf8_encode(_)
utf8_encode(c) ==
  IF c = <<>> THEN <<>>
  ELSE IF Len(c) >= 2 /\ c[1] = "D83D" /\ c[2] = "DE00"
    THEN <<"F0", "9F", "98", "80">> \o utf8_encode(SubSeq(c, 3, Len(c)))
  ELSE IF c[1] \in {"D83D", "DE00", "FFFD"}
    THEN <<"EF", "BF", "BD">> \o utf8_encode(Tail(c))
  ELSE <<c[1]>> \o utf8_encode(Tail(c))

\* buffer.toString("utf-8"): a byte that starts no complete sequence decodes
\* to U+FFFD.
RECURSIVE utf8_decode(_)
utf8_decode(b) ==
  IF b = <<>> THEN <<>>
  ELSE IF isPrefix(b, <<"F0", "9F", "98", "80">>)
    THEN <<"D83D", "DE00">> \o utf8_decode(SubSeq(b, 5, Len(b)))
  ELSE IF isPrefix(b, <<"EF", "BF", "BD">>)
    THEN <<"FFFD">> \o utf8_decode(SubSeq(b, 4, Len(b)))
  ELSE IF b[1] \in {"F0", "9F", "98", "80", "EF", "BF", "BD"}
    THEN <<"FFFD">> \o utf8_decode(Tail(b))
  ELSE <<b[1]>> \o utf8_decode(Tail(b))

(***************************************************************************)
(* The filesystem: a function from the absolute paths that exist to their  *)
(* entries.  Each operator is one fs call and yields                       *)
(* [threw, message, value, fs]: whether it rejects, the Error's message,   *)
(* the value it resolves to and the filesystem it leaves.  fault names the *)
(* call the operating system refuses (EACCES), "none" when it refuses none.*)
(***************************************************************************)
DirEntry == [kind |-> "dir", data |-> <<>>]
FileEntry(bytes) == [kind |-> "file", data |-> bytes]

isDirectory(f, p) == p \in DOMAIN f /\ f[p].kind = "dir"
isFile(f, p) == p \in DOMAIN f /\ f[p].kind = "file"

ancestors(p) ==
  LET segs == segmentsOf(p) IN
    {fromSegments(SubSeq(segs, 1, k)) : k \in 0..Len(segs)}

children(f, p) == {c \in DOMAIN f : c # p /\ path_dirname(c) = p}

errorMessage(code, syscall, p) ==
  <<code>> \o <<", ">> \o <<syscall>> \o <<" '">> \o p \o <<"'">>

fsError(code, syscall, p, f) ==
  [threw |-> TRUE, message |-> errorMessage(code, syscall, p),
   value |-> <<>>, fs |-> f]

fsOk(v, f) == [threw |-> FALSE, message |-> <<>>, value |-> v, fs |-> f]

\* a path below a file does not exist as a directory entry: ENOTDIR
underFile(f, p) == \E a \in ancestors(p) \ {p} : isFile(f, a)

\* a faulty variant of fs_mkdir: mkdir without { recursive: true }
fs_mkdir_notRecursive(f, dir, fault) ==
  IF fault = "mkdir" THEN fsError("EACCES", "mkdir", dir, f)
  ELSE IF underFile(f, dir) THEN fsError("ENOTDIR", "mkdir", dir, f)
  ELSE IF dir \in DOMAIN f THEN fsError("EEXIST", "mkdir", dir, f)
  ELSE IF ~isDirectory(f, path_dirname(dir)) THEN fsError("ENOENT", "mkdir", dir, f)
  ELSE fsOk(<<>>, [p \in DOMAIN f \cup {dir} |-> IF p = dir THEN DirEntry ELSE f[p]])

\* fs.mkdir(dir, { recursive: true })
fs_mkdir(f, dir, fault) ==
  IF fault = "mkdir" THEN fsError("EACCES", "mkdir", dir, f)
  ELSE IF underFile(f, dir) THEN fsError("ENOTDIR", "mkdir", dir, f)
  ELSE IF isFile(f, dir) THEN fsError("EEXIST", "mkdir", dir, f)
  ELSE fsOk(<<>>,
         [p \in DOMAIN f \cup ancestors(dir) |->
            IF p \in DOMAIN f THEN f[p] ELSE DirEntry])

\* a faulty variant of fs_open_w: the file is opened without O_TRUNC
fs_open_w_noTruncate(f, p, fault) ==
  IF fault = "open" THEN fsError("EACCES", "open", p, f)
  ELSE IF underFile(f, p) THEN fsError("ENOTDIR", "open", p, f)
  ELSE IF isDirectory(f, p) THEN fsError("EISDIR", "open", p, f)
  ELSE IF ~isDirectory(f, path_dirname(p)) THEN fsError("ENOENT", "open", p, f)
  ELSE fsOk(<<>>,
         [q \in DOMAIN f \cup {p} |->
            IF q = p /\ p \notin DOMAIN f THEN FileEntry(<<>>) ELSE f[q]])

\* open(path, "w"): O_WRONLY | O_CREAT | O_TRUNC
fs_open_w(f, p, fault) ==
  IF fault = "open" THEN fsError("EACCES", "open", p, f)
  ELSE IF underFile(f, p) THEN fsError("ENOTDIR", "open", p, f)
  ELSE IF isDirectory(f, p) THEN fsError("EISDIR", "open", p, f)
  ELSE IF ~isDirectory(f, path_dirname(p)) THEN fsError("ENOENT", "open", p, f)
  ELSE fsOk(<<>>,
         [q \in DOMAIN f \cup {p} |-> IF q = p THEN FileEntry(<<>>) ELSE f[q]])

\* a faulty variant of fs_write: the bytes are appended (O_APPEND)
fs_write_append(f, p, bytes, fault) ==
  IF fault = "write" THEN fsError("ENOSPC", "write", p, f)
  ELSE fsOk(<<>>, [f EXCEPT ![p] = FileEntry(f[p].data \o bytes)])

\* write(fd, bytes) on a descriptor just opened: the bytes go to offset 0,
\* over whatever the file holds, and bytes past them stay.
fs_write(f, p, bytes, fault) ==
  IF fault = "write" THEN fsError("ENOSPC", "write", p, f)
  ELSE LET old == f[p].data IN
    fsOk(<<>>,
      [f EXCEPT ![p] = FileEntry(bytes \o SubSeq(old, Len(bytes) + 1, Len(old)))])

\* fs.writeFile(path, content, "utf-8"): open "w", write, close
fs_writeFile(f, p, content, fault) ==
  LET opened == fs_open_w(f, p, fault) IN
    IF opened.threw THEN opened
    ELSE fs_write(opened.fs, p, utf8_encode(content), fault)

\* fs.readFile(path, "utf-8")
fs_readFile(f, p, fault) ==
  IF fault = "readFile" THEN fsError("EACCES", "open", p, f)
  ELSE IF underFile(f, p) THEN fsError("ENOTDIR", "open", p, f)
  ELSE IF p \notin DOMAIN f THEN fsError("ENOENT", "open", p, f)
  ELSE IF isDirectory(f, p) THEN fsError("EISDIR", "read", p, f)
  ELSE fsOk(utf8_decode(f[p].data), f)

\* fs.readdir(path, { withFileTypes: true }): the entries, as a set; the
\* order in which they come is the filesystem's.
fs_readdir(f, p, fault) ==
  IF fault = "readdir" THEN fsError("EACCES", "scandir", p, f)
  ELSE IF underFile(f, p) THEN fsError("ENOTDIR", "scandir", p, f)
  ELSE IF p \notin DOMAIN f THEN fsError("ENOENT", "scandir", p, f)
  ELSE IF isFile(f, p) THEN fsError("ENOTDIR", "scandir", p, f)
  ELSE fsOk({[name |-> path_basename(c), isDirectory |-> isDirectory(f, c)] :
               c \in children(f, p)}, f)

(***************************************************************************)
(* The server's configuration and the requests of the model.               *)
(***************************************************************************)
\* process.env.ALLOWED_DIRECTORY
ALLOWED_DIRECTORY == <<sep, "allowed">>

\* __dirname, the directory of the built module
DIRNAME == <<sep, "dist">>

\* The working directories the server is started in.
WorkingDirectories ==
  { <<sep, "allowed">>, <<sep, "allowed", sep, "sub">>, <<sep, "outside">> }

\* The path arguments of the requests.
Candidates ==
  { <<sep, "allowed">>,
    <<sep, "allowed", sep, "x">>,
    <<sep, "allowed_evil", sep, "x">>,
    <<sep, "allowed", sep, "dotdot", sep, "outside", sep, "x">>,
    <<sep, "allowed", sep, "dotdot", sep, "allowed_evil", sep, "x">>,
    <<".">>,
    <<"sub", sep, "dir">>,
    <<"sub", sep, "dir", sep, "file_txt">> }

\* The path arguments of the write_file requests.
WriteCandidates ==
  { <<sep, "allowed">>,
    <<sep, "allowed_evil", sep, "x">>,
    <<sep, "allowed", sep, "dotdot", sep, "outside", sep, "x">>,
    <<"sub", sep, "dir", sep, "file_txt">> }

\* The requests of the overlapping write_file calls.
ConcCandidates ==
  { <<sep, "allowed", sep, "x">>, <<"sub", sep, "dir", sep, "file_txt">> }
ConcContents == { <<"D83D">>, <<"D83D", "DE00">> }

\* The fs calls of each tool that the operating system may refuse.
ReadFaults == {"none", "readFile"}
WriteFaults == {"none", "mkdir", "open", "write"}
ListFaults == {"none", "readdir"}

\* The contents written over a filesystem whose calls may fail.
FaultContents == {<<>>, <<"D83D", "DE00">>}

(***************************************************************************)
(* validatePath: [threw, message, value].                                  *)
(***************************************************************************)
validatePath(filePath) ==
  LET resolvedPath == path_resolve(cwd, filePath)
      allowedPath == path_resolve(cwd, ALLOWED_DIRECTORY)
  IN IF ~startsWith(resolvedPath, allowedPath)
       THEN [threw |-> TRUE,
             message |-> <<"Access denied: Path ">> \o filePath
                           \o <<" is outside allowed directory">>,
             value |-> <<>>]
       ELSE [threw |-> FALSE, message |-> <<>>, value |-> resolvedPath]

(***************************************************************************)
(* The tool handlers.  A handler yields [result, calls, fs]: the value its *)
(* promise settles with, the fs calls it made, in order, and the           *)
(* filesystem it leaves.  rejected says that the promise rejects, so that  *)
(* the fault reaches the caller.                                           *)
(***************************************************************************)
success(text) == [isError |-> FALSE, text |-> text, rejected |-> FALSE]

\* a faulty variant of catchError: the result lacks isError
catchError_noFlag(prefix, requested, message) ==
  [isError |-> FALSE,
   text |-> prefix \o requested \o <<": ">> \o message,
   rejected |-> FALSE]

\* the catch blocks: every thrown value is an Error, whose message is kept
catchError(prefix, requested, message) ==
  [isError |-> TRUE,
   text |-> prefix \o requested \o <<": ">> \o message,
   rejected |-> FALSE]

fsCall(fn, p) == [fn |-> fn, path |-> p]

returned(result, calls, f) == [result |-> result, calls |-> calls, fs |-> f]

read_file_handler(f, filePath, fault) ==
  LET prefix == <<"Error reading file ">>
      validated == validatePath(filePath)
      validatedPath == validated.value
      read == fs_readFile(f, validatedPath, fault)
  IN IF validated.threw
       THEN returned(catchError(prefix, filePath, validated.message), <<>>, f)
     ELSE IF read.threw
       THEN returned(catchError(prefix, filePath, read.message),
                     <<fsCall("readFile", validatedPath)>>, read.fs)
     ELSE returned(success(<<"File: ">> \o filePath \o <<"\n\n">> \o read.value),
                   <<fsCall("readFile", validatedPath)>>, read.fs)

write_file_handler(f, filePath, content, fault) ==
  LET prefix == <<"Error writing file ">>
      validated == validatePath(filePath)
      validatedPath == validated.value
      directory == path_dirname(validatedPath)
      made == fs_mkdir(f, directory, fault)
      written == fs_writeFile(made.fs, validatedPath, content, fault)
  IN IF validated.threw
       THEN returned(catchError(prefix, filePath, validated.message), <<>>, f)
     ELSE IF made.threw
       THEN returned(catchError(prefix, filePath, made.message),
                     <<fsCall("mkdir", directory)>>, made.fs)
     ELSE IF written.threw
       THEN returned(catchError(prefix, filePath, written.message),
                     <<fsCall("mkdir", directory),
                       fsCall("writeFile", validatedPath)>>, written.fs)
     ELSE returned(success(<<"Successfully wrote to file: ">> \o filePath),
                   <<fsCall("mkdir", directory),
                     fsCall("writeFile", validatedPath)>>, written.fs)

\* the optional path argument: <<>> when absent, <<p>> when given
dirPathOf(arg) == IF arg = <<>> THEN <<".">> ELSE arg[1]

debugInfo(dirPath) ==
  <<"Debug info:\n- ALLOWED_DIRECTORY: ">> \o ALLOWED_DIRECTORY
    \o <<"\n- Requested path: ">> \o dirPath
    \o <<"\n- process.cwd(): ">> \o cwd
    \o <<"\n- __dirname: ">> \o DIRNAME

formattedList(items) ==
  join([i \in 1..Len(items) |->
          <<IF items[i].isDirectory THEN "<folder> " ELSE "<page> ">>
            \o items[i].name],
       <<"\n">>)

\* the orders in which readdir may give a set of entries
orderings(S) ==
  {o \in [1..Cardinality(S) -> S] : \A i, j \in 1..Cardinality(S) : o[i] = o[j] => i = j}

listings(f, dirPath, fault) ==
  LET validated == validatePath(dirPath)
      listed == fs_readdir(f, validated.value, fault)
  IN IF validated.threw \/ listed.threw THEN {<<>>} ELSE orderings(listed.value)

\* items: the entries in the order readdir gave them
list_files_handler(f, arg, fault, items) ==
  LET dirPath == dirPathOf(arg)
      prefix == debugInfo(dirPath) \o <<"\n\n", "Error listing directory ">>
      validated == validatePath(dirPath)
      validatedPath == validated.value
      listed == fs_readdir(f, validatedPath, fault)
  IN IF validated.threw
       THEN returned(catchError(prefix, dirPath, validated.message), <<>>, f)
     ELSE IF listed.threw
       THEN returned(catchError(prefix, dirPath, listed.message),
                     <<fsCall("readdir", validatedPath)>>, listed.fs)
     ELSE returned(success(debugInfo(dirPath) \o <<"\n\nContents of ">> \o dirPath
                             \o <<" (resolved to ">> \o validatedPath
                             \o <<"):\n\n">> \o formattedList(items)),
                   <<fsCall("readdir", validatedPath)>>, listed.fs)

(***************************************************************************)
(* State.                                                                  *)
(*   cwd        process.cwd(), fixed while the server runs                 *)
(*   fs         the filesystem                                             *)
(*   last       the latest call that returned: the tool, its arguments,    *)
(*              its result, the fs calls it made, the entries it listed    *)
(*   inflight   the write_file calls in flight, by call number             *)
(*   wrote      the number of the call whose write step ran last (0: none) *)
(***************************************************************************)
NoCall ==
  [op |-> "none", arg |-> <<>>, content |-> <<>>, result |-> success(<<>>),
   calls |-> <<>>, items |-> <<>>]

Idle ==
  [pc |-> "idle", filePath |-> <<>>, content |-> <<>>, validatedPath |-> <<>>,
   result |-> success(<<>>)]

Init ==
  /\ cwd \in WorkingDirectories
  /\ fs = [p \in ancestors(path_resolve(cwd, ALLOWED_DIRECTORY))
                   \cup ancestors(<<sep, "outside">>)
                   \cup ancestors(cwd) |-> DirEntry]
  /\ last = NoCall
  /\ inflight = [i \in 1..MaxCalls |-> Idle]
  /\ wrote = 0

(***************************************************************************)
(* One call at a time: each action is a whole handler, from the request to *)
(* the result.                                                             *)
(***************************************************************************)
read_file(filePath, fault) ==
  LET h == read_file_handler(fs, filePath, fault) IN
    /\ fs' = h.fs
    /\ last' = [op |-> "read_file", arg |-> <<filePath>>, content |-> <<>>,
                result |-> h.result, calls |-> h.calls, items |-> <<>>]
    /\ UNCHANGED <<cwd, inflight, wrote>>

write_file(filePath, content, fault) ==
  LET h == write_file_handler(fs, filePath, content, fault) IN
    /\ fs' = h.fs
    /\ last' = [op |-> "write_file", arg |-> <<filePath>>, content |-> content,
                result |-> h.result, calls |-> h.calls, items |-> <<>>]
    /\ UNCHANGED <<cwd, inflight, wrote>>

list_files(arg, fault) ==
  \E items \in listings(fs, dirPathOf(arg), fault) :
    LET h == list_files_handler(fs, arg, fault, items) IN
      /\ fs' = h.fs
      /\ last' = [op |-> "list_files", arg |-> arg, content |-> <<>>,
                  result |-> h.result, calls |-> h.calls, items |-> items]
      /\ UNCHANGED <<cwd, inflight, wrote>>

PathArguments == {<<>>} \cup {<<p>> : p \in Candidates}

Next ==
  \/ \E p \in Candidates : read_file(p, "none")
  \/ \E p \in WriteCandidates : \E c \in Contents : write_file(p, c, "none")
  \/ \E arg \in PathArguments : list_files(arg, "none")

Spec == Init /\ [][Next]_vars

\* the same calls over a filesystem whose calls may fail
FaultNext ==
  \/ \E p \in Candidates : \E fault \in ReadFaults : read_file(p, fault)
  \/ \E p \in WriteCandidates : \E c \in FaultContents : \E fault \in WriteFaults :
       write_file(p, c, fault)
  \/ \E arg \in PathArguments : \E fault \in ListFaults : list_files(arg, fault)

FaultSpec == Init /\ [][FaultNext]_vars

(***************************************************************************)
(* Overlapping write_file calls.  A handler runs until it awaits; the      *)
(* requests it awaits are served one at a time, in any order among the     *)
(* calls in flight.  fs.writeFile is three requests: open, write, close.   *)
(***************************************************************************)
writeError(filePath, message) ==
  catchError(<<"Error writing file ">>, filePath, message)

\* the request arrives: validatePath, path.dirname, and mkdir is requested
write_file_call(i, filePath, content) ==
  LET validated == validatePath(filePath) IN
    /\ inflight[i].pc = "idle"
    /\ inflight' = [inflight EXCEPT ![i] =
         IF validated.threw
           THEN [pc |-> "returned", filePath |-> filePath, content |-> content,
                 validatedPath |-> <<>>,
                 result |-> writeError(filePath, validated.message)]
           ELSE [pc |-> "mkdir", filePath |-> filePath, content |-> content,
                 validatedPath |-> validated.value, result |-> success(<<>>)]]
    /\ UNCHANGED <<cwd, fs, last, wrote>>

\* await fs.mkdir(directory, { recursive: true })
write_file_mkdir(i) ==
  LET call == inflight[i]
      made == fs_mkdir(fs, path_dirname(call.validatedPath), "none")
  IN /\ call.pc = "mkdir"
     /\ fs' = made.fs
     /\ inflight' = [inflight EXCEPT ![i] =
          IF made.threw
            THEN [call EXCEPT !.pc = "returned",
                              !.result = writeError(call.filePath, made.message)]
            ELSE [call EXCEPT !.pc = "open"]]
     /\ UNCHANGED <<cwd, last, wrote>>

\* fs.writeFile: the file is opened, created or truncated
write_file_open(i) ==
  LET call == inflight[i]
      opened == fs_open_w(fs, call.validatedPath, "none")
  IN /\ call.pc = "open"
     /\ fs' = opened.fs
     /\ inflight' = [inflight EXCEPT ![i] =
          IF opened.threw
            THEN [call EXCEPT !.pc = "returned",
                              !.result = writeError(call.filePath, opened.message)]
            ELSE [call EXCEPT !.pc = "write"]]
     /\ UNCHANGED <<cwd, last, wrote>>

\* fs.writeFile: the encoded content is written through the descriptor
write_file_write(i) ==
  LET call == inflight[i]
      written == fs_write(fs, call.validatedPath, utf8_encode(call.content), "none")
  IN /\ call.pc = "write"
     /\ fs' = written.fs
     /\ inflight' = [inflight EXCEPT ![i] = [call EXCEPT !.pc = "close"]]
     /\ wrote' = i
     /\ UNCHANGED <<cwd, last>>

\* fs.writeFile: the descriptor is closed, and the handler returns
write_file_return(i) ==
  LET call == inflight[i] IN
    /\ call.pc = "close"
    /\ inflight' = [inflight EXCEPT ![i] =
         [call EXCEPT !.pc = "returned",
                      !.result = success(<<"Successfully wrote to file: ">>
                                           \o call.filePath)]]
    /\ UNCHANGED <<cwd, fs, last, wrote>>

ConcNext ==
  \/ \E i \in 1..MaxCalls : \E p \in ConcCandidates : \E c \in ConcContents :
       write_file_call(i, p, c)
  \/ \E i \in 1..MaxCalls : write_file_mkdir(i)
  \/ \E i \in 1..MaxCalls : write_file_open(i)
  \/ \E i \in 1..MaxCalls : write_file_write(i)
  \/ \E i \in 1..MaxCalls : write_file_return(i)

ConcSpec == Init /\ [][ConcNext]_vars

(***************************************************************************)
(* Properties.                                                             *)
(***************************************************************************)
\* the path the latest call asked for, and what it resolves to
requested == dirPathOf(last.arg)
resolvedRequested == path_resolve(cwd, requested)
resolvedRoot == path_resolve(cwd, ALLOWED_DIRECTORY)

\* the resolved root itself, or below it
insideRoot(p) == p = resolvedRoot \/ startsWith(p, resolvedRoot \o <<sep>>)

\* the latest call was refused by validatePath
denied ==
  /\ last.result.isError
  /\ includes(last.result.text,
              <<"Access denied: Path ">> \o requested
                \o <<" is outside allowed directory">>)

hasDotSegments(p) == \E i \in DOMAIN p : p[i] \in {".", "dotdot"}

errorPrefix(op) ==
  CASE op = "read_file" -> <<"Error reading file ">>
    [] op = "write_file" -> <<"Error writing file ">>
    [] OTHER -> <<"Error listing directory ">>

\* what exists before the first call
initialPaths ==
  ancestors(resolvedRoot) \cup ancestors(<<sep, "outside">>) \cup ancestors(cwd)

SubDirFile == <<"sub", sep, "dir", sep, "file_txt">>
SubDir == <<"sub", sep, "dir">>

\* C1: a call is accepted by validatePath if and only if its resolved path is
\* the resolved root or begins with the resolved root followed by a separator.
C1_SeparatorBoundary ==
  last.op # "none" => (~denied <=> insideRoot(resolvedRequested))

\* C2: a candidate whose raw text begins with the allowed root and whose "."
\* and ".." segments lead outside the root is refused by validatePath, and the
\* call returns a Failure.
C2_TraversalRejected ==
  ( /\ last.op # "none"
    /\ startsWith(requested, ALLOWED_DIRECTORY)
    /\ hasDotSegments(requested)
    /\ ~insideRoot(resolvedRequested) )
  => denied

\* C3: a call whose path resolves outside the allowed root makes no fs call and
\* returns a Failure whose message holds the path as it was requested.
C3_OutsideTouchesNothing ==
  (last.op # "none" /\ ~insideRoot(resolvedRequested))
  => /\ last.calls = <<>>
     /\ last.result.isError
     /\ includes(last.result.text, requested)

\* C4: whatever the fs call answers, a call returns a result and never rejects:
\* the result is a Failure, flagged, with the requested path in its message, or
\* a Success; reading a path under the root that does not exist is a Failure.
C4_WellFormedResult ==
  last.op # "none" =>
    /\ ~last.result.rejected
    /\ (last.result.isError <=>
          includes(last.result.text,
                   errorPrefix(last.op) \o requested \o <<": ">>))
    /\ ( /\ last.op = "read_file"
         /\ insideRoot(resolvedRequested)
         /\ resolvedRequested \notin DOMAIN fs )
       => last.result.isError

\* C4, witness: the operating system refused a write, after the file was opened,
\* and the call returned a Failure.
C4_FaultReturned ==
  /\ last.op = "write_file"
  /\ last.result.isError
  /\ includes(last.result.text, <<"ENOSPC">>)

\* C5: every path a write_file call hands to mkdir and writeFile is inside the
\* allowed root, and nothing outside the root is ever created.
C5_WriteConfined ==
  /\ last.op = "write_file" =>
       \A k \in DOMAIN last.calls : insideRoot(last.calls[k].path)
  /\ \A p \in DOMAIN fs :
       insideRoot(p) \/ (p \in initialPaths /\ isDirectory(fs, p))

\* C6: list_files without a path succeeds and lists the children of the allowed
\* root, in whatever directory the server runs.
C6_ListDefaultIsRoot ==
  (last.op = "list_files" /\ last.arg = <<>>)
  => /\ ~last.result.isError
     /\ {last.items[i] : i \in DOMAIN last.items}
          = fs_readdir(fs, resolvedRoot, "none").value

\* the text of a successful read_file of path p holding content c
readText(p, c) == <<"File: ">> \o p \o <<"\n\n">> \o c

\* no unpaired surrogate
wellFormed(c) ==
  \A i \in DOMAIN c :
    /\ c[i] = "D83D" => (i < Len(c) /\ c[i + 1] = "DE00")
    /\ c[i] = "DE00" => (i > 1 /\ c[i - 1] = "D83D")

\* a write_file call has succeeded and the next call reads the same path
readFollowsWrite ==
  /\ last.op = "write_file"
  /\ ~last.result.isError
  /\ last'.op = "read_file"
  /\ last'.arg = last.arg

fileEntry == [name |-> <<"file_txt">>, isDirectory |-> FALSE]

\* write_file("sub/dir/file.txt", c) where sub does not exist succeeds and
\* creates sub and sub/dir under the allowed root
createsDirectories ==
  ( /\ last'.op = "write_file"
    /\ last'.arg = <<SubDirFile>>
    /\ path_resolve(cwd, <<"sub">>) \notin DOMAIN fs )
  => /\ ~last'.result.isError
     /\ isDirectory(fs', path_resolve(cwd, <<"sub">>))
     /\ isDirectory(fs', path_resolve(cwd, SubDir))
     /\ insideRoot(path_resolve(cwd, <<"sub">>))
     /\ isFile(fs', path_resolve(cwd, SubDirFile))

\* list_files("sub/dir") after it shows file.txt as a file
listShowsFile ==
  ( /\ last.op = "write_file"
    /\ last.arg = <<SubDirFile>>
    /\ ~last.result.isError
    /\ last'.op = "list_files"
    /\ last'.arg = <<SubDir>> )
  => /\ ~last'.result.isError
     /\ \E i \in DOMAIN last'.items : last'.items[i] = fileEntry
     /\ includes(last'.result.text, <<"<page> ", "file_txt">>)

\* the same write_file again succeeds
writeAgainSucceeds ==
  ( /\ last.op = "write_file"
    /\ last.arg = <<SubDirFile>>
    /\ ~last.result.isError
    /\ last'.op = "write_file"
    /\ last'.arg = last.arg
    /\ last'.content = last.content )
  => ~last'.result.isError

\* C8: write_file("sub/dir/file.txt", c) succeeds when neither sub nor sub/dir
\* exists and creates them under the allowed root; list_files("sub/dir") then
\* shows file.txt as a file; the same write again succeeds.
C8_AutoCreate ==
  [][createsDirectories /\ listShowsFile /\ writeAgainSucceeds]_vars

\* C8, amended: the same, when the working directory is the allowed root or a
\* directory inside it.
C8_AutoCreateInsideRoot ==
  [][insideRoot(cwd) =>
       (createsDirectories /\ listShowsFile /\ writeAgainSucceeds)]_vars

\* C8, witness: sub/dir, which no call made but the write, is listed and holds
\* file.txt.
C8_Listed ==
  /\ last.op = "list_files"
  /\ last.arg = <<SubDir>>
  /\ ~last.result.isError
  /\ insideRoot(cwd)
  /\ last.items = <<fileEntry>>

\* C9: after a successful write_file the file holds the encoding of the
\* content of that call and nothing else, whatever it held before.
C9_WholeFileOverwrite ==
  (last.op = "write_file" /\ ~last.result.isError)
  => /\ isFile(fs, resolvedRequested)
     /\ fs[resolvedRequested].data = utf8_encode(last.content)

\* C9, witness: a write of one code unit has succeeded.
C9_Written ==
  /\ last.op = "write_file"
  /\ ~last.result.isError
  /\ last.content = <<"D83D">>

\* every call in flight has returned, all with Success, all for the same file
allWroteOneFile ==
  \A i \in 1..MaxCalls :
    /\ inflight[i].pc = "returned"
    /\ ~inflight[i].result.isError
    /\ inflight[i].validatedPath = inflight[1].validatedPath

encoded(i) == utf8_encode(inflight[i].content)

====
